---- MODULE Spec2Model ----
(***************************************************************************)
(* A model of dufs_downloader.py: the size-probing, skipping download of   *)
(* one file (download_file), the directory lister, the recursive folder    *)
(* download and the interactive navigation loop (interactive_download).    *)
(*                                                                         *)
(* Python strings are sequences of one-character strings, so that strip,   *)
(* split, join, lower, isdigit and int are computed as Python computes     *)
(* them.  A local path (pathlib.Path after resolve) is a sequence of       *)
(* segments, each segment a string.                                        *)
(***************************************************************************)
EXTENDS Integers, Sequences, FiniteSets, TLC

VARIABLES
    localFs,        \* the local file system: resolved path -> [dir, size, src]
    remoteFiles,    \* the server's files: URL path (string) -> byte length
    remoteTree,     \* the server's directories: URL path -> the items listed for it
    current_path,   \* interactive_download: the session's current remote path
    pc,             \* "session" while the loop of interactive_download runs, "done" after it
                    \* returned, "raised" after an exception ended it
    last,           \* what the last loop iteration did (listing, input read, report printed)
    calls           \* the download_file calls the last step made, in order

vars == <<localFs, remoteFiles, remoteTree, current_path, pc, last, calls>>

----------------------------------------------------------------------------
(* Bounds of the model *)

\* remote and local files are 0..MaxSize bytes long
MaxSize == 2

----------------------------------------------------------------------------
(* Python's str methods *)

\* s.rstrip(c): s up to its last character other than c
RStrip(s, c) ==
    SubSeq(s, 1, Len(s) - Cardinality({i \in 1..Len(s) : \A j \in i..Len(s) : s[j] = c}))

\* s.lstrip(c): s from its first character other than c
LStrip(s, c) ==
    SubSeq(s, 1 + Cardinality({i \in 1..Len(s) : \A j \in 1..i : s[j] = c}), Len(s))

\* s.strip(c); s.strip() is StripCh(s, " ")
StripCh(s, c) == LStrip(RStrip(s, c), c)

\* s.startswith(p)
StartsWith(s, p) == Len(s) >= Len(p) /\ SubSeq(s, 1, Len(p)) = p

\* s.endswith(p)
EndsWith(s, p) == Len(s) >= Len(p) /\ SubSeq(s, Len(s) - Len(p) + 1, Len(s)) = p

\* s.split("/"): the parts between the slashes, always at least one part,
\* empty parts kept
Split(s) ==
    LET cuts == {0, Len(s) + 1} \cup {i \in 1..Len(s) : s[i] = "/"}
        cut(k) == CHOOSE p \in cuts : Cardinality({q \in cuts : q < p}) = k
    IN  [k \in 1..(Cardinality(cuts) - 1) |-> SubSeq(s, cut(k - 1) + 1, cut(k) - 1)]

\* "/".join(parts)
RECURSIVE Join(_)
Join(parts) ==
    IF parts = <<>> THEN <<>>
    ELSE IF Len(parts) = 1 THEN parts[1]
    ELSE parts[1] \o <<"/">> \o Join(Tail(parts))

\* c.lower() for the letters of the model's alphabet
LowerCh(c) ==
    CASE c = "Q" -> "q"
      [] c = "D" -> "d"
      [] c = "F" -> "f"
      [] c = "A" -> "a"
      [] OTHER -> c

\* s.lower()
Lower(s) == [i \in 1..Len(s) |-> LowerCh(s[i])]

\* the decimal digits, which int() reads
Digits == {"0", "1", "2", "3", "4", "5", "6", "7", "8", "9"}

\* the characters str.isdigit() accepts: the decimal digits and the other
\* characters of Unicode's digit type, of which "^2" stands for the one
\* character SUPERSCRIPT TWO (U+00B2)
DigitChars == Digits \cup {"^2"}

\* s.isdigit(): non-empty and every character a digit character
IsDigit(s) == s # <<>> /\ \A i \in 1..Len(s) : s[i] \in DigitChars

\* int(s) reads a string of digit characters when all are decimal digits,
\* and raises ValueError otherwise
IsDecimal(s) == s # <<>> /\ \A i \in 1..Len(s) : s[i] \in Digits

DigitVal(c) ==
    CASE c = "0" -> 0 [] c = "1" -> 1 [] c = "2" -> 2 [] c = "3" -> 3
      [] c = "4" -> 4 [] c = "5" -> 5 [] c = "6" -> 6 [] c = "7" -> 7
      [] c = "8" -> 8 [] c = "9" -> 9

\* int(s) for a string of digits
RECURSIVE ToInt(_)
ToInt(s) ==
    IF s = <<>> THEN 0
    ELSE 10 * ToInt(SubSeq(s, 1, Len(s) - 1)) + DigitVal(s[Len(s)])

----------------------------------------------------------------------------
(* pathlib and the local file system *)

\* Path.resolve() of segments: "" and "." are dropped, ".." pops (the root stays)
RECURSIVE ResolveSegs(_, _)
ResolveSegs(acc, segs) ==
    IF segs = <<>> THEN acc
    ELSE IF segs[1] = <<>> \/ segs[1] = <<".">> THEN ResolveSegs(acc, Tail(segs))
    ELSE IF segs[1] = <<".", ".">>
        THEN ResolveSegs(IF acc = <<>> THEN acc ELSE SubSeq(acc, 1, Len(acc) - 1), Tail(segs))
    ELSE ResolveSegs(Append(acc, segs[1]), Tail(segs))

\* (dir / name).resolve(): an absolute name replaces dir
PathJoin(dir, name) ==
    ResolveSegs(IF StartsWith(name, <<"/">>) THEN <<>> ELSE dir, Split(name))

\* Path.parent: the root is its own parent
Parent(p) == IF p = <<>> THEN p ELSE SubSeq(p, 1, Len(p) - 1)

\* Path.name
BaseName(p) == IF p = <<>> THEN <<>> ELSE p[Len(p)]

\* a directory, and a regular file of n bytes; src tells the bytes the user put
\* there ("user") from the bytes a transfer wrote ("remote")
DirEntry == [dir |-> TRUE, size |-> 0, src |-> "user"]
FileEntry(n, src) == [dir |-> FALSE, size |-> n, src |-> src]

\* Path.exists()
Exists(fs, p) == p \in DOMAIN fs
\* Path.is_file()
IsFile(fs, p) == Exists(fs, p) /\ ~fs[p].dir
\* Path.is_dir()
IsDirLocal(fs, p) == Exists(fs, p) /\ fs[p].dir

Prefixes(p) == {SubSeq(p, 1, k) : k \in 0..Len(p)}

\* Path.mkdir(parents=True, exist_ok=True) raises when a component is a regular file
MkdirRaises(fs, d) == \E q \in Prefixes(d) : IsFile(fs, q)

\* Path.mkdir(parents=True, exist_ok=True): d and its missing ancestors become directories
Mkdir(fs, d) ==
    [q \in DOMAIN fs \cup Prefixes(d) |-> IF q \in DOMAIN fs THEN fs[q] ELSE DirEntry]

\* the file at p is created or overwritten with n bytes
WriteFile(fs, p, n, src) ==
    [q \in DOMAIN fs \cup {p} |-> IF q = p THEN FileEntry(n, src) ELSE fs[q]]

\* the entry at p, if any
EntryAt(fs, p) == IF p \in DOMAIN fs THEN {fs[p]} ELSE {}

----------------------------------------------------------------------------
(* URLs and the server's files *)

\* an optional value: None is the empty set, Some(v) the singleton
None == {}
Some(v) == {v}

\* the element of a one-element set: {e(x) : x \in {v}} computes v once for
\* all its uses in e
The(S) == CHOOSE v \in S : TRUE

\* filter(None, segments): the empty segments dropped
RECURSIVE DropEmpty(_)
DropEmpty(segs) ==
    IF segs = <<>> THEN <<>>
    ELSE IF segs[1] = <<>> THEN DropEmpty(Tail(segs))
    ELSE <<segs[1]>> \o DropEmpty(Tail(segs))

\* urljoin's resolution of "." and ".." segments; ".." above the root is dropped
RECURSIVE UrlResolve(_, _)
UrlResolve(acc, segs) ==
    IF segs = <<>> THEN acc
    ELSE IF segs[1] = <<".", ".">>
        THEN UrlResolve(IF acc = <<>> THEN acc ELSE SubSeq(acc, 1, Len(acc) - 1), Tail(segs))
    ELSE IF segs[1] = <<".">> THEN UrlResolve(acc, Tail(segs))
    ELSE UrlResolve(Append(acc, segs[1]), Tail(segs))

\* the path of urljoin(base_url + "/", rel), as its segments below the server root;
\* a last segment <<>> is a trailing slash
UrlSegs(rel) ==
    The({UrlResolve(<<>>, DropEmpty(SubSeq(parts, 1, Len(parts) - 1))
                          \o <<parts[Len(parts)]>>)
            \o (IF parts[Len(parts)] \in {<<".">>, <<".", ".">>} THEN <<<<>>>> ELSE <<>>) :
         parts \in {Split(rel)}})

\* the URL download_file and get_remote_size request for remote_path
FileUrl(remote_path) == UrlSegs(LStrip(remote_path, "/"))

\* int(cl): an optional sign, then digits; anything else raises ValueError
IntParses(cl) ==
    IF cl # <<>> /\ cl[1] \in {"-", "+"} THEN IsDecimal(Tail(cl)) ELSE IsDecimal(cl)

IntOf(cl) ==
    IF cl[1] = "-" THEN 0 - ToInt(Tail(cl))
    ELSE IF cl[1] = "+" THEN ToInt(Tail(cl))
    ELSE ToInt(cl)

\* get_remote_size returning 0 instead of None when the request fails
GetRemoteSize_ZeroOnError(head) ==
    IF head.error THEN Some(0)
    ELSE IF head.cl = None THEN None
    ELSE LET cl == CHOOSE c \in head.cl : TRUE
         IN  IF IntParses(cl) THEN Some(IntOf(cl)) ELSE None

\* get_remote_size: head is the outcome of the HEAD request, [error, cl] with cl the
\* optional Content-Length header; every failure gives None
GetRemoteSize(head) ==
    IF head.error THEN None
    ELSE IF head.cl = None THEN None
    ELSE LET cl == CHOOSE c \in head.cl : TRUE
         IN  IF IntParses(cl) THEN Some(IntOf(cl)) ELSE None

\* the tools tried in the other order
Strategy_CurlFirst(which) ==
    IF "curl" \in which THEN "curl"
    ELSE IF "wget" \in which THEN "wget"
    ELSE "builtin"

\* shutil.which("wget"), then shutil.which("curl"), else the built-in copy
Strategy(which) ==
    IF "wget" \in which THEN "wget"
    ELSE IF "curl" \in which THEN "curl"
    ELSE "builtin"

\* the skip test with remote_size > 0 for remote_size >= 0
SkipTest_NoZero(remote_size, local_size) ==
    /\ remote_size # None
    /\ \A r \in remote_size : r > 0 /\ local_size = r

\* the skip test of download_file: the probed size is known, >= 0 and the local length
SkipTest(remote_size, local_size) ==
    /\ remote_size # None
    /\ \A r \in remote_size : r >= 0 /\ local_size = r

\* the bytes a failed transfer leaves in the target: fewer than the remote file has
PartialBytes(remote, url, got) ==
    IF url \in DOMAIN remote /\ got < remote[url] THEN got ELSE 0

\* line 100, return (True, True)
SkipResult(rec) == [rec EXCEPT !.ok = TRUE, !.skipped = TRUE]

\* the returned pair in the wrong order, (False, ret.returncode == 0)
TransferResult_Swapped(rec, success) == [rec EXCEPT !.ok = FALSE, !.skipped = success]

\* line 119, return (ret.returncode == 0, False)
TransferResult(rec, success) == [rec EXCEPT !.ok = success, !.skipped = FALSE]

\* a copy that loses the last byte
Received_DropsLast(remote, url) == IF remote[url] > 0 THEN remote[url] - 1 ELSE 0

\* the bytes a successful transfer writes: all of the remote file (wget, curl,
\* or the read loop of lines 116-117)
Received(remote, url) == remote[url]

\* the target after the transfer strategy ran.  A success leaves the remote
\* file's bytes.  A failure: wget -O truncates the target at once, curl -o and
\* open(.., "wb") write only once the response arrives; a directory target stays
Transfer(fs, remote, url, local_path, strategy, success, env) ==
    IF success THEN WriteFile(fs, local_path, Received(remote, url), "remote")
    ELSE IF IsDirLocal(fs, local_path) THEN fs
    ELSE IF strategy = "wget"
        THEN WriteFile(fs, local_path,
                       IF env.xfer = "broken" THEN PartialBytes(remote, url, env.got) ELSE 0,
                       "remote")
    ELSE IF env.xfer = "broken" /\ url \in DOMAIN remote
        THEN WriteFile(fs, local_path, PartialBytes(remote, url, env.got), "remote")
    ELSE fs

\* download_file(base_url, remote_path, local_path) in file system fs against the
\* server files remote; env is what the environment answers during the call:
\*   which : the external tools installed, head : the HEAD response,
\*   xfer  : "ok" | "refused" (no byte arrives) | "broken" (got bytes arrive), got
\* The result is [fs, and the call's record]: the arguments, the target's entry
\* before the call, whether line 97 was reached, whether the size was probed and
\* the probe's result, the tools installed, the strategy run ("none": no transfer
\* started), whether it completed (exit status 0, or the copy ran through), and
\* raised or the returned (ok, skipped).
DownloadFile(fs, remote, remote_path, local_path, env) ==
    LET url == FileUrl(remote_path)
        rec == [remote_path |-> remote_path, local_path |-> local_path,
                before |-> EntryAt(fs, local_path), head |-> env.head,
                reached |-> FALSE, probed |-> FALSE, remote_size |-> None,
                which |-> env.which, strategy |-> "none", completed |-> FALSE,
                raised |-> FALSE, ok |-> FALSE, skipped |-> FALSE]
    IN
    IF MkdirRaises(fs, Parent(local_path))
    THEN [fs |-> fs, rec |-> [rec EXCEPT !.raised = TRUE]]
    ELSE
    LET fs1 == Mkdir(fs, Parent(local_path))
        probe == IsFile(fs1, local_path)
        remote_size == IF probe THEN GetRemoteSize(env.head) ELSE None
        rec1 == [rec EXCEPT !.reached = TRUE, !.probed = probe, !.remote_size = remote_size]
    IN
    IF probe /\ SkipTest(remote_size, fs1[local_path].size)
    THEN [fs |-> fs1, rec |-> SkipResult(rec1)]
    ELSE
    LET strategy == Strategy(env.which)
        success == /\ env.xfer = "ok"
                   /\ url \in DOMAIN remote
                   /\ ~IsDirLocal(fs1, local_path)
        rec2 == [rec1 EXCEPT !.strategy = strategy, !.completed = success]
        fs2 == Transfer(fs1, remote, url, local_path, strategy, success, env)
    IN
    IF strategy = "builtin" /\ ~success
    THEN [fs |-> fs2, rec |-> [rec2 EXCEPT !.raised = TRUE]]
    ELSE [fs |-> fs2, rec |-> TransferResult(rec2, success)]

----------------------------------------------------------------------------
(* The environment of one download_file call *)

\* str(n) for a one-digit n
DigitStr(n) == <<CHOOSE c \in Digits : DigitVal(c) = n>>

\* the HEAD responses: a failed request, no Content-Length, an unparsable one,
\* a negative one, and every length 0..MaxSize
Heads ==
    {[error |-> TRUE, cl |-> None], [error |-> FALSE, cl |-> None]}
    \cup {[error |-> FALSE, cl |-> Some(c)] :
            c \in {<<"x">>, <<"-", "1">>} \cup {DigitStr(n) : n \in 0..MaxSize}}

Envs ==
    [which : SUBSET {"wget", "curl"}, head : Heads,
     xfer : {"ok", "refused", "broken"}, got : 0..MaxSize]

\* env answers only what the call asks: no HEAD response unless local_path is a
\* regular file; a transfer breaks off after fewer bytes than the remote file has
Answers(fs, remote, remote_path, local_path, env) ==
    /\ ~IsFile(fs, local_path) => env.head = [error |-> TRUE, cl |-> None]
    /\ env.xfer # "broken" => env.got = 0
    /\ env.xfer = "broken" =>
            /\ FileUrl(remote_path) \in DOMAIN remote
            /\ env.got < remote[FileUrl(remote_path)]

\* the session's save directory, /s
SaveDir == <<<<"s">>>>

\* a regular file the user keeps in the save directory, /s/n
UserNote == SaveDir \o <<<<"n">>>>

\* the local file system before anything is downloaded: /, the save directory
\* and the user's file in it
EmptyFs ==
    [q \in Prefixes(SaveDir) \cup {UserNote} |->
        IF q = UserNote THEN FileEntry(1, "user") ELSE DirEntry]

NoFiles == [u \in {} |-> 0]

\* a server without directories
NoTree == [d \in {} |-> <<>>]

NoLast == [kind |-> "start"]

\* a function without the key k
Without(f, k) == [q \in DOMAIN f \ {k} |-> f[q]]

----------------------------------------------------------------------------
(* SpecDL: download_file called with arguments from bounded sets, between   *)
(* changes of the remote file and of the local file                        *)

\* remote_path arguments: f is a file the server may have
DLRemotePaths == {<<"f">>}

\* the call repeats the step before it: that was a call with the same arguments
\* that returned (True, False), and nothing happened in between
Repeats(remote_path, local_path) ==
    /\ calls # <<>>
    /\ calls[1].call.remote_path = remote_path /\ calls[1].call.local_path = local_path
    /\ ~calls[1].call.raised /\ calls[1].call.ok /\ ~calls[1].call.skipped

\* the local file the calls are mostly about, /s/d/f
LocalF == SaveDir \o <<<<"d">>, <<"f">>>>

\* local_path arguments: a file in a subdirectory of the save directory, the
\* save directory itself, and a path below the user's regular file
DLLocalPaths == {LocalF, SaveDir, UserNote \o <<<<"g">>>>}

InitDL ==
    /\ localFs \in {EmptyFs} \cup {WriteFile(Mkdir(EmptyFs, Parent(LocalF)), LocalF, n, "user") : n \in 0..MaxSize}
    /\ remoteFiles \in {NoFiles} \cup {[u \in {<<<<"f">>>>} |-> n] : n \in 0..MaxSize}
    /\ remoteTree = NoTree
    /\ current_path = <<>>
    /\ pc = "api"
    /\ last = NoLast
    /\ calls = <<>>

\* one call download_file(base_url, remote_path, local_path)
DownloadFileCall ==
    \E remote_path \in DLRemotePaths, local_path \in DLLocalPaths, env \in Envs :
        /\ Answers(localFs, remoteFiles, remote_path, local_path, env)
        /\ \E r \in {DownloadFile(localFs, remoteFiles, remote_path, local_path, env)} :
               /\ localFs' = r.fs
               /\ calls' = <<[call |-> r.rec, again |-> Repeats(remote_path, local_path)]>>
               /\ UNCHANGED <<remoteTree, remoteFiles, current_path, pc, last>>

\* the server's file f is replaced or removed
RemoteChanges ==
    /\ \/ \E n \in 0..MaxSize : remoteFiles' = [u \in {<<<<"f">>>>} |-> n]
       \/ remoteFiles' = NoFiles
    /\ remoteFiles' # remoteFiles
    /\ calls' = <<>>
    /\ UNCHANGED <<remoteTree, localFs, current_path, pc, last>>

\* the user rewrites or deletes the local file /s/d/f
LocalChanges ==
    /\ IsDirLocal(localFs, Parent(LocalF))
    /\ \/ \E n \in 0..MaxSize : localFs' = WriteFile(localFs, LocalF, n, "user")
       \/ localFs' = Without(localFs, LocalF)
    /\ localFs' # localFs
    /\ calls' = <<>>
    /\ UNCHANGED <<remoteTree, remoteFiles, current_path, pc, last>>

NextDL == DownloadFileCall \/ RemoteChanges \/ LocalChanges

SpecDL == InitDL /\ [][NextDL]_vars

----------------------------------------------------------------------------
(* The directory lister *)

\* the four path_type tags of the structured listing
TDir == <<"D", "i", "r">>
TSymlinkDir == <<"S", "y", "m", "l", "i", "n", "k">> \o TDir
TFile == <<"F", "i", "l", "e">>
TSymlinkFile == <<"S", "y", "m", "l", "i", "n", "k">> \o TFile

\* one item of the structured listing's paths: name and href are optional
Item(name, href, path_type) == [name |-> name, href |-> href, path_type |-> path_type]

\* the URL path fetch_json and fetch_simple request for path, without the
\* trailing slash: the directory the server lists
DirUrl(path) ==
    The({IF segs # <<>> /\ segs[Len(segs)] = <<>> THEN SubSeq(segs, 1, Len(segs) - 1)
         ELSE segs :
         segs \in {UrlSegs(LStrip(IF path = <<>> THEN <<".">> ELSE path, "/") \o <<"/">>)}})

\* fetch_json against a server holding the directories of tree, whose requests
\* for the directories in failing fail: the request raises ("error") or gives
\* the record with the paths list
FetchJson(tree, failing, path) ==
    The({IF d \notin DOMAIN tree \/ d \in failing
         THEN [kind |-> "error"]
         ELSE [kind |-> "object", paths |-> Some(tree[d])] :
         d \in {DirUrl(path)}})

\* the ?simple listing the server sends for the items of a directory: one
\* name a line, a directory's name followed by a slash
SimpleLines(paths) ==
    [i \in 1..Len(paths) |->
        (IF paths[i].name = None THEN <<>> ELSE The(paths[i].name))
        \o (IF EndsWith(paths[i].path_type, TDir) THEN <<"/">> ELSE <<>>)]

\* lines 46-53: the (name, is_dir) of every non-empty line
ParseSimple(lines) ==
    The({[i \in 1..Len(kept) |->
            [name |-> RStrip(kept[i], "/"), is_dir |-> EndsWith(kept[i], <<"/">>)]] :
         kept \in {SelectSeq(lines, LAMBDA l : l # <<>>)}})

\* fetch_simple against the same server: the request raises or gives the
\* lines, which lines 46-53 turn into (name, is_dir)
FetchSimple(tree, failing, path) ==
    The({IF d \notin DOMAIN tree \/ d \in failing
         THEN [raised |-> TRUE, items |-> <<>>]
         ELSE [raised |-> FALSE, items |-> ParseSimple(SimpleLines(tree[d]))] :
         d \in {DirUrl(path)}})

\* lines 66-72: the (name, is_dir) of one item p of paths
EntryOf(p) ==
    [name |-> IF p.name # None /\ The(p.name) # <<>> THEN The(p.name)
              ELSE IF p.href = None THEN <<>>
              ELSE The({IF href # <<>> THEN Split(href)[Len(Split(href))] ELSE <<>> :
                        href \in {RStrip(The(p.href), "/")}}),
     is_dir |-> EndsWith(p.path_type, TDir)]

\* list_directory with the network failure of the structured request caught
\* like a parsing failure
ListDirectoryOf_FallbackOnError(data, simple) ==
    IF data.kind \in {"error", "type_error"}
        THEN [raised |-> simple.raised, items |-> simple.items, fallback |-> TRUE]
    ELSE IF data.kind = "attribute_error"
        THEN [raised |-> TRUE, items |-> <<>>, fallback |-> FALSE]
    ELSE IF data.paths = None THEN [raised |-> FALSE, items |-> <<>>, fallback |-> FALSE]
    ELSE [raised |-> FALSE, fallback |-> FALSE,
          items |-> [i \in 1..Len(The(data.paths)) |-> EntryOf(The(data.paths)[i])]]

\* lines 61-75 of list_directory, data being what fetch_json gave and simple
\* what fetch_simple gives if it is called: [raised, items, fallback], fallback
\* telling whether fetch_simple was called.  data.kind is
\*   "error"           : the request or the JSON decoding raised; not caught
\*   "attribute_error" : the response is no record, or an item of paths is
\*                       none (.get raises AttributeError); not caught
\*   "type_error"      : paths is there and cannot be iterated (TypeError);
\*                       caught on line 74, fetch_simple is called
\*   "object"          : a record; without paths, data.get("paths", []) gives
\*                       the empty list and nothing is raised
ListDirectoryOf(data, simple) ==
    IF data.kind \in {"error", "attribute_error"}
        THEN [raised |-> TRUE, items |-> <<>>, fallback |-> FALSE]
    ELSE IF data.kind = "type_error"
        THEN [raised |-> simple.raised, items |-> simple.items, fallback |-> TRUE]
    ELSE IF data.paths = None THEN [raised |-> FALSE, items |-> <<>>, fallback |-> FALSE]
    ELSE [raised |-> FALSE, fallback |-> FALSE,
          items |-> [i \in 1..Len(The(data.paths)) |-> EntryOf(The(data.paths)[i])]]

\* list_directory(base_url, path) against the server of tree and failing
ListDirectory(tree, failing, path) ==
    ListDirectoryOf(FetchJson(tree, failing, path), FetchSimple(tree, failing, path))

----------------------------------------------------------------------------
(* The recursive folder download *)

\* the deepest nesting of collect_files_recursive before Python raises RecursionError
MaxDepth == 3

\* the child path without its directory
ChildPath_NameOnly(path, name) == name

\* line 129 and lines 228, 249: the child path of name under path
ChildPath(path, name) ==
    IF path # <<>> THEN RStrip(path, "/") \o <<"/">> \o name ELSE name

\* collect_files_recursive: [raised, files]; a failed listing raises out of
\* every level
\* lines 126-134: the loop over items from item i on, files being the paths
\* collected so far
RECURSIVE CollectFilesRecursive(_, _, _, _)
RECURSIVE CollectItems(_, _, _, _, _, _, _)
CollectItems(tree, failing, remote_path, items, i, files, depth) ==
    IF i > Len(items) THEN [raised |-> FALSE, files |-> files]
    ELSE IF items[i].name \in {<<".">>, <<".", ".">>}
        THEN CollectItems(tree, failing, remote_path, items, i + 1, files, depth)
    ELSE IF ~items[i].is_dir
        THEN CollectItems(tree, failing, remote_path, items, i + 1,
                          Append(files, ChildPath(remote_path, items[i].name)), depth)
    ELSE CHOOSE out \in
            {IF sub.raised THEN sub
             ELSE CollectItems(tree, failing, remote_path, items, i + 1,
                               files \o sub.files, depth) :
                sub \in {CollectFilesRecursive(tree, failing,
                                               ChildPath(remote_path, items[i].name),
                                               depth + 1)}} : TRUE

\* a directory whose listing fails counted as empty
CollectFilesRecursive_SkipsFailedDir(tree, failing, remote_path, depth) ==
    IF depth > MaxDepth THEN [raised |-> TRUE, files |-> <<>>]
    ELSE CHOOSE out \in
            {IF listing.raised THEN [raised |-> FALSE, files |-> <<>>]
             ELSE CollectItems(tree, failing, remote_path, listing.items, 1, <<>>, depth) :
                listing \in {ListDirectory(tree, failing, remote_path)}} : TRUE

CollectFilesRecursive(tree, failing, remote_path, depth) ==
    IF depth > MaxDepth THEN [raised |-> TRUE, files |-> <<>>]
    ELSE CHOOSE out \in
            {IF listing.raised THEN [raised |-> TRUE, files |-> <<>>]
             ELSE CollectItems(tree, failing, remote_path, listing.items, 1, <<>>, depth) :
                listing \in {ListDirectory(tree, failing, remote_path)}} : TRUE

\* line 140: remote_path.rstrip("/").split("/")[-1] or "download"
FolderName(remote_path) ==
    LET parts == Split(RStrip(remote_path, "/"))
    IN  IF parts[Len(parts)] # <<>> THEN parts[Len(parts)]
        ELSE <<"d", "o", "w", "n", "l", "o", "a", "d">>

\* every file put directly into the target directory
LocalFileOf_Flat(remote_path, local_base, file_path) ==
    PathJoin(PathJoin(local_base, FolderName(remote_path)),
             Split(file_path)[Len(Split(file_path))])

\* lines 142-149: the local file of a collected file_path
LocalFileOf(remote_path, local_base, file_path) ==
    LET prefix == RStrip(remote_path, "/") \o <<"/">>
        rel == IF StartsWith(file_path, prefix)
               THEN SubSeq(file_path, Len(prefix) + 1, Len(file_path))
               ELSE file_path
    IN  PathJoin(PathJoin(local_base, FolderName(remote_path)), rel)

\* lines 144-157: download_file for files[i..], each under its own environment;
\* what a call returns or raises is reported and the loop goes on
RECURSIVE DownloadEach_StopsOnError(_, _, _, _, _, _, _, _)
RECURSIVE DownloadEach(_, _, _, _, _, _, _, _)

\* the loop without the try of lines 150-157: the first call that raises ends it
DownloadEach_StopsOnError(fs, remote, remote_path, local_base, files, envs, i, calls_made) ==
    IF i > Len(files) THEN [raised |-> FALSE, fs |-> fs, calls |-> calls_made]
    ELSE CHOOSE out \in
            {IF r.rec.raised
             THEN [raised |-> TRUE, fs |-> r.fs, calls |-> Append(calls_made, r.rec)]
             ELSE DownloadEach_StopsOnError(r.fs, remote, remote_path, local_base, files,
                                            envs, i + 1, Append(calls_made, r.rec)) :
                r \in {DownloadFile(fs, remote, files[i],
                                    LocalFileOf(remote_path, local_base, files[i]),
                                    envs[i])}} : TRUE

DownloadEach(fs, remote, remote_path, local_base, files, envs, i, calls_made) ==
    IF i > Len(files) THEN [raised |-> FALSE, fs |-> fs, calls |-> calls_made]
    ELSE CHOOSE out \in
            {DownloadEach(r.fs, remote, remote_path, local_base, files, envs, i + 1,
                          Append(calls_made, r.rec)) :
                r \in {DownloadFile(fs, remote, files[i],
                                    LocalFileOf(remote_path, local_base, files[i]),
                                    envs[i])}} : TRUE

\* download_folder: raises, with nothing downloaded, when the collection raises
DownloadFolder(fs, remote, tree, failing, remote_path, local_base, envs) ==
    CHOOSE out \in
        {IF got.raised THEN [raised |-> TRUE, fs |-> fs, calls |-> <<>>]
         ELSE DownloadEach(fs, remote, remote_path, local_base, got.files, envs, 1, <<>>) :
            got \in {CollectFilesRecursive(tree, failing, remote_path, 0)}} : TRUE

----------------------------------------------------------------------------
(* Spec: the interactive session against a server with a small tree *)

\* the server's directories: / holds a/ and f, a/ holds x and the symlinked
\* directory b/, which is empty
SessionTree ==
    (<<>> :> <<Item(Some(<<"a">>), None, TDir), Item(Some(<<"f">>), None, TFile)>>)
    @@ (<<<<"a">>>> :> <<Item(Some(<<"x">>), None, TSymlinkFile),
                         Item(Some(<<"b">>), None, TSymlinkDir)>>)
    @@ (<<<<"a">>, <<"b">>>> :> <<>>)

\* the longest current_path the user navigates to, in characters
MaxPath == 3

\* the server's files: f is empty, a/x has one byte
SessionFiles == (<<<<"f">>>> :> 0) @@ (<<<<"a">>, <<"x">>>> :> 1)

\* the lines the user may type
Inputs ==
    { <<>>, <<" ">>,
      <<"q">>, <<"Q">>, <<"q", "u", "i", "t">>, <<"e", "x", "i", "t">>,
      <<".", ".">>, <<"c", "d", " ", ".", ".">>, <<" ", ".", ".", " ">>,
      <<"0">>, <<"1">>, <<"2">>, <<"3">>,
      <<"d", "0">>, <<"d", "1">>, <<"d", "2">>, <<"d", "3">>, <<"D", "1">>, <<"d", " ", "2">>,
      <<"a">>, <<"f">>, <<"F">>, <<"x">>, <<"b">>, <<"c", "d">>,
      <<"^2">>, <<"d", "^2">> }

\* the listing requests that fail while a folder is collected: none, or those
\* of one directory below the root
FailSets == {{}} \cup {{d} : d \in DOMAIN remoteTree \ {<<>>}}

\* what the environment answers to the session's download_file calls: both
\* tools, curl alone or no tool installed; a failed HEAD request or a
\* Content-Length of 0 or 1; a transfer that arrives or is refused
SessionEnvs ==
    {e \in Envs :
        /\ e.which \in {{"wget", "curl"}, {"curl"}, {}}
        /\ e.head \in {[error |-> TRUE, cl |-> None],
                       [error |-> FALSE, cl |-> Some(<<"0">>)],
                       [error |-> FALSE, cl |-> Some(<<"1">>)]}
        /\ e.xfer \in {"ok", "refused"}
        /\ e.got = 0}

Init ==
    /\ localFs = EmptyFs
    /\ remoteFiles = SessionFiles
    /\ remoteTree = SessionTree
    /\ current_path = <<>>
    /\ pc = "session"
    /\ last = NoLast
    /\ calls = <<>>

\* line 210: the quit tokens, in any letter case
IsQuit(u) == Lower(u) \in {<<"q">>, <<"q", "u", "i", "t">>, <<"e", "x", "i", "t">>}

\* line 214
IsParentNav(u) == u \in {<<".", ".">>, <<"c", "d", " ", ".", ".">>}

\* the d prefix tested without lower() and for the wrong letter case
ForceDownload_UpperD(u) ==
    StartsWith(u, <<"D">>) /\ IsDigit(StripCh(SubSeq(u, 2, Len(u)), " "))

\* line 220
ForceDownload(u) ==
    StartsWith(Lower(u), <<"d">>) /\ IsDigit(StripCh(SubSeq(u, 2, Len(u)), " "))

\* lines 221-222: the token tested by isdigit on line 224
IndexToken(u) == IF ForceDownload(u) THEN StripCh(SubSeq(u, 2, Len(u)), " ") ELSE u

\* the range test with 0 let through
InRange_ZeroOk(idx, n) == 0 <= idx /\ idx <= n

\* line 226: 1 <= idx <= len(items)
InRange(idx, n) == 1 <= idx /\ idx <= n

\* line 227, items[idx - 1]: Python counts an index below 0 from the end
ItemAt(items, idx) ==
    IF idx - 1 >= 0 THEN items[idx] ELSE items[Len(items) + idx]

\* a download that raised ends the loop
AfterDownload_EndsOnError(raised) == IF raised THEN "done" ELSE "session"

\* lines 242-243 and 265-266, except Exception: whatever the download raised
\* is printed and the loop goes on
AfterDownload(raised) == "session"

\* the parent navigation going back to the root
PopPath_ToRoot(path) == <<>>

\* lines 216-217: the parent of a non-empty current_path
PopPath(path) ==
    LET parts == Split(RStrip(path, "/"))
    IN  IF Len(parts) > 1 THEN Join(SubSeq(parts, 1, Len(parts) - 1)) ELSE <<>>

\* target_path without the current path
TargetPath_NameOnly(path, name) == name

\* lines 228 and 249: target_path
TargetPath(path, name) ==
    IF path # <<>> THEN StripCh(path \o <<"/">> \o name, "/") ELSE name

\* the names compared without their letter case
Matched_IgnoreCase(items, name) == SelectSeq(items, LAMBDA e : Lower(e.name) = Lower(name))

\* line 250: the entries named name
Matched(items, name) == SelectSeq(items, LAMBDA e : e.name = name)

\* what one iteration of the loop leaves in last: the path printed on line 179,
\* whether the listing came, the entries, the line read and the message printed
Iteration(listed, items, input, report, folder) ==
    [kind |-> "iteration", path |-> current_path, listed |-> listed, items |-> items,
     input |-> input, report |-> report, folder |-> folder]

\* lines 182-186: the listing fails, the session ends
ListFails ==
    /\ pc = "session"
    /\ \E failing \in {{DirUrl(current_path)}} :
          /\ ListDirectory(remoteTree, failing, current_path).raised
          /\ last' = Iteration(FALSE, <<>>, None, "Failed to list", None)
    /\ pc' = "done"
    /\ calls' = <<>>
    /\ UNCHANGED <<remoteTree, localFs, remoteFiles, current_path>>

\* lines 182-183 of an iteration that goes on to read a line: the listing came
Listed == ListDirectory(remoteTree, {}, current_path)

\* lines 202-206: end of input or an interrupt
ReadFails ==
    /\ pc = "session"
    /\ \E listing \in {Listed} :
          /\ ~listing.raised
          /\ last' = Iteration(TRUE, listing.items, None, "Bye", None)
    /\ pc' = "done"
    /\ calls' = <<>>
    /\ UNCHANGED <<remoteTree, localFs, remoteFiles, current_path>>

\* lines 208-209: an empty line
EmptyInput ==
    /\ pc = "session"
    /\ \E listing \in {Listed}, raw \in Inputs :
          /\ ~listing.raised
          /\ StripCh(raw, " ") = <<>>
          /\ last' = Iteration(TRUE, listing.items, Some(raw), "", None)
    /\ calls' = <<>>
    /\ UNCHANGED <<remoteTree, localFs, remoteFiles, current_path, pc>>

\* lines 210-212: a quit token
Quit ==
    /\ pc = "session"
    /\ \E listing \in {Listed}, raw \in Inputs :
          LET u == StripCh(raw, " ")
          IN  /\ ~listing.raised
              /\ u # <<>> /\ IsQuit(u)
              /\ last' = Iteration(TRUE, listing.items, Some(raw), "Bye", None)
    /\ pc' = "done"
    /\ calls' = <<>>
    /\ UNCHANGED <<remoteTree, localFs, remoteFiles, current_path>>

\* lines 214-218: go to the parent directory
ParentNav ==
    /\ pc = "session"
    /\ \E listing \in {Listed}, raw \in Inputs :
          LET u == StripCh(raw, " ")
          IN  /\ ~listing.raised
              /\ u # <<>> /\ ~IsQuit(u) /\ IsParentNav(u)
              /\ last' = Iteration(TRUE, listing.items, Some(raw), "", None)
    /\ current_path' = IF current_path # <<>> THEN PopPath(current_path) ELSE current_path
    /\ calls' = <<>>
    /\ UNCHANGED <<remoteTree, localFs, remoteFiles, pc>>

\* the line is a number or d+number (line 224)
IsIndexInput(u) == u # <<>> /\ ~IsQuit(u) /\ ~IsParentNav(u) /\ IsDigit(IndexToken(u))

\* the line is taken as a name (line 248)
IsNameInput(u) == u # <<>> /\ ~IsQuit(u) /\ ~IsParentNav(u) /\ ~IsDigit(IndexToken(u))

\* lines 244-245: a number outside 1..len(items)
IndexInvalid ==
    /\ pc = "session"
    /\ \E listing \in {Listed}, raw \in Inputs :
          LET u == StripCh(raw, " ")
              idx == ToInt(IndexToken(u))
          IN  /\ ~listing.raised
              /\ IsIndexInput(u) /\ IsDecimal(IndexToken(u))
              /\ ~InRange(idx, Len(listing.items))
              /\ last' = Iteration(TRUE, listing.items, Some(raw), "Invalid number", None)
    /\ calls' = <<>>
    /\ UNCHANGED <<remoteTree, localFs, remoteFiles, current_path, pc>>

\* line 225: int() raises ValueError on a digit character that is no decimal
\* digit; nothing catches it and interactive_download ends by the exception
IndexRaises ==
    /\ pc = "session"
    /\ \E listing \in {Listed}, raw \in Inputs :
          LET u == StripCh(raw, " ")
          IN  /\ ~listing.raised
              /\ IsIndexInput(u) /\ ~IsDecimal(IndexToken(u))
              /\ last' = Iteration(TRUE, listing.items, Some(raw), "ValueError", None)
    /\ pc' = "raised"
    /\ calls' = <<>>
    /\ UNCHANGED <<remoteTree, localFs, remoteFiles, current_path>>

\* lines 229-230: a number selecting a directory enters it
IndexNavigate ==
    /\ pc = "session"
    /\ \E listing \in {Listed}, raw \in Inputs :
          LET u == StripCh(raw, " ")
              idx == ToInt(IndexToken(u))
          IN  /\ ~listing.raised
              /\ IsIndexInput(u) /\ IsDecimal(IndexToken(u))
              /\ InRange(idx, Len(listing.items))
              /\ ItemAt(listing.items, idx).is_dir /\ ~ForceDownload(u)
              /\ Len(TargetPath(current_path, ItemAt(listing.items, idx).name)) <= MaxPath
              /\ current_path' = TargetPath(current_path, ItemAt(listing.items, idx).name)
              /\ last' = Iteration(TRUE, listing.items, Some(raw), "", None)
    /\ calls' = <<>>
    /\ UNCHANGED <<remoteTree, localFs, remoteFiles, pc>>

\* lines 238-243 and 261-266: the message for what download_file returned or raised
FileReport(rec) ==
    IF rec.raised THEN "Download failed: error"
    ELSE IF ~rec.ok THEN "Download failed"
    ELSE IF rec.skipped THEN "Skipped (exists)"
    ELSE "Downloaded"

\* lines 236-243 and 258-266: download_file of the entry name into the save
\* directory, whatever it returns or raises being reported
SessionDownload(items, raw, name) ==
    LET target_path == TargetPath(current_path, name)
        local_file == PathJoin(SaveDir, name)
    IN  \E env \in SessionEnvs :
          /\ Answers(localFs, remoteFiles, target_path, local_file, env)
          /\ \E r \in {DownloadFile(localFs, remoteFiles, target_path, local_file, env)} :
                /\ localFs' = r.fs
                /\ calls' = <<[call |-> r.rec, again |-> FALSE]>>
                /\ last' = Iteration(TRUE, items, Some(raw), FileReport(r.rec), None)
                /\ pc' = AfterDownload(r.rec.raised)

\* lines 232-243: a number or d+number selecting a file downloads it
IndexDownloadFile ==
    /\ pc = "session"
    /\ \E listing \in {Listed}, raw \in Inputs :
          LET u == StripCh(raw, " ")
              idx == ToInt(IndexToken(u))
          IN  /\ ~listing.raised
              /\ IsIndexInput(u) /\ IsDecimal(IndexToken(u))
              /\ InRange(idx, Len(listing.items))
              /\ ~ItemAt(listing.items, idx).is_dir
              /\ SessionDownload(listing.items, raw, ItemAt(listing.items, idx).name)
    /\ UNCHANGED <<remoteTree, remoteFiles, current_path>>

\* lines 232-234 and 242-243: d+number selecting a directory downloads the folder
IndexDownloadFolder ==
    /\ pc = "session"
    /\ \E listing \in {Listed}, raw \in Inputs :
          LET u == StripCh(raw, " ")
              idx == ToInt(IndexToken(u))
          IN  /\ ~listing.raised
              /\ IsIndexInput(u) /\ IsDecimal(IndexToken(u))
              /\ InRange(idx, Len(listing.items))
              /\ ItemAt(listing.items, idx).is_dir /\ ForceDownload(u)
              /\ \E failing \in FailSets,
                    target_path \in {TargetPath(current_path, ItemAt(listing.items, idx).name)} :
                   \E n \in {Len(CollectFilesRecursive(remoteTree, failing, target_path, 0).files)} :
                   \E envs \in [1..n -> SessionEnvs] :
                   \E r \in {DownloadFolder(localFs, remoteFiles, remoteTree, failing,
                                            target_path, SaveDir, envs)} :
                       /\ localFs' = r.fs
                       /\ calls' = [i \in 1..Len(r.calls) |-> [call |-> r.calls[i], again |-> FALSE]]
                       /\ last' = Iteration(TRUE, listing.items, Some(raw),
                                            IF r.raised THEN "Download failed: error" ELSE "",
                                            Some([remote_path |-> target_path, raised |-> r.raised]))
                       /\ pc' = AfterDownload(r.raised)
    /\ UNCHANGED <<remoteTree, remoteFiles, current_path>>

\* lines 251-253: no entry has the name
NameNotFound ==
    /\ pc = "session"
    /\ \E listing \in {Listed}, raw \in Inputs :
          LET u == StripCh(raw, " ")
          IN  /\ ~listing.raised
              /\ IsNameInput(u)
              /\ Matched(listing.items, u) = <<>>
              /\ last' = Iteration(TRUE, listing.items, Some(raw), "Not found", None)
    /\ calls' = <<>>
    /\ UNCHANGED <<remoteTree, localFs, remoteFiles, current_path, pc>>

\* lines 254-256: the name of a directory enters it
NameNavigate ==
    /\ pc = "session"
    /\ \E listing \in {Listed}, raw \in Inputs :
          LET u == StripCh(raw, " ")
          IN  /\ ~listing.raised
              /\ IsNameInput(u)
              /\ Matched(listing.items, u) # <<>>
              /\ Matched(listing.items, u)[1].is_dir
              /\ Len(TargetPath(current_path, u)) <= MaxPath
              /\ current_path' = TargetPath(current_path, u)
              /\ last' = Iteration(TRUE, listing.items, Some(raw), "", None)
    /\ calls' = <<>>
    /\ UNCHANGED <<remoteTree, localFs, remoteFiles, pc>>

\* lines 257-266: the name of a file downloads it
NameDownloadFile ==
    /\ pc = "session"
    /\ \E listing \in {Listed}, raw \in Inputs :
          LET u == StripCh(raw, " ")
          IN  /\ ~listing.raised
              /\ IsNameInput(u)
              /\ Matched(listing.items, u) # <<>>
              /\ ~Matched(listing.items, u)[1].is_dir
              /\ SessionDownload(listing.items, raw, u)
    /\ UNCHANGED <<remoteTree, remoteFiles, current_path>>

Next ==
    \/ ListFails \/ ReadFails \/ EmptyInput \/ Quit \/ ParentNav
    \/ IndexRaises \/ IndexInvalid \/ IndexNavigate \/ IndexDownloadFile \/ IndexDownloadFolder
    \/ NameNotFound \/ NameNavigate \/ NameDownloadFile

Spec == Init /\ [][Next]_vars

----------------------------------------------------------------------------
(* SpecH: the interactive session against a server whose listings hold     *)
(* names a file system would not give                                      *)

\* / lists a directory named .., a directory named /a and the directory a; a
\* lists a directory with only the href /, the symlinked directory b by its
\* href and the file x; a/b is empty
HostileTree ==
    (<<>> :> <<Item(Some(<<".", ".">>), None, TDir),
               Item(Some(<<"/", "a">>), None, TDir),
               Item(Some(<<"a">>), None, TDir)>>)
    @@ (<<<<"a">>>> :> <<Item(None, Some(<<"/">>), TDir),
                         Item(None, Some(<<"/", "a", "/", "b", "/">>), TSymlinkDir),
                         Item(Some(<<"x">>), None, TFile)>>)
    @@ (<<<<"a">>, <<"b">>>> :> <<>>)

InitH ==
    /\ localFs = EmptyFs
    /\ remoteFiles = SessionFiles
    /\ remoteTree = HostileTree
    /\ current_path = <<>>
    /\ pc = "session"
    /\ last = NoLast
    /\ calls = <<>>

SpecH == InitH /\ [][Next]_vars

----------------------------------------------------------------------------
(* The claims about download_file, checked under SpecDL *)

\* the size a HEAD response reports: the integer its Content-Length spells
ReportedSize(head) ==
    {n \in (0 - 1)..MaxSize :
        /\ ~head.error
        /\ head.cl = Some(IF n < 0 THEN <<"-", "1">> ELSE DigitStr(n))}

\* the target of call c was a regular file whose length the probe reported
SizesMatch(c) ==
    \E e \in c.before : ~e.dir /\ \E n \in ReportedSize(c.head) : n >= 0 /\ n = e.size

\* C1: a call whose target exists as a regular file and whose probe reports a
\* size >= 0 equal to the file's length returns (True, True), starts no transfer
\* strategy and leaves the target as it was
C1_SkipsWhenSizesMatch ==
    \A i \in 1..Len(calls) :
        LET c == calls[i].call
        IN  SizesMatch(c) =>
                /\ ~c.raised /\ c.ok /\ c.skipped
                /\ c.strategy = "none"
                /\ EntryAt(localFs, c.local_path) = c.before

\* an empty local file against a reported size of 0 was skipped
C1_Witness ==
    \E i \in 1..Len(calls) :
        LET c == calls[i].call
        IN  /\ SizesMatch(c)
            /\ c.before = {FileEntry(0, "user")}
            /\ c.skipped

\* C2: a call that gets to the skip test and does not meet the skip condition
\* (target absent or no regular file, sizes different, or the probe failing by a
\* request error, a missing or an unparsable Content-Length) starts a transfer
\* and is not a skip; after a failed probe nothing is raised but by the
\* built-in copy
C2_TransfersUnlessSizesMatch ==
    \A i \in 1..Len(calls) :
        LET c == calls[i].call
        IN  /\ (c.reached /\ ~SizesMatch(c)) => (~c.skipped /\ c.strategy # "none")
            /\ (c.probed /\ ReportedSize(c.head) = {}) =>
                    /\ c.strategy # "none"
                    /\ c.raised => c.strategy = "builtin"

\* an existing file, an unparsable Content-Length, and the transfer was started
C2_Witness ==
    \E i \in 1..Len(calls) :
        LET c == calls[i].call
        IN  /\ c.probed
            /\ c.head = [error |-> FALSE, cl |-> Some(<<"x">>)]
            /\ c.strategy # "none"
            /\ ~c.raised

\* C3: every returned pair has skipped => success, and not the converse: a
\* transfer that was run and returned a success returned (True, False), and an
\* external transfer of a file the server does not have returned (False, False)
C3_SkippedImpliesSuccess ==
    \A i \in 1..Len(calls) :
        LET c == calls[i].call
        IN  /\ c.skipped => c.ok
            /\ (c.strategy # "none" /\ ~c.raised) => ~c.skipped
            /\ (c.strategy \in {"wget", "curl"} /\ FileUrl(c.remote_path) \notin DOMAIN remoteFiles)
                    => (~c.raised /\ ~c.ok /\ ~c.skipped)

\* curl ran, failed, and the call returned (False, False)
C3_Witness ==
    \E i \in 1..Len(calls) :
        LET c == calls[i].call
        IN  /\ c.strategy = "curl"
            /\ FileUrl(c.remote_path) \notin DOMAIN remoteFiles
            /\ ~c.raised /\ ~c.ok /\ ~c.skipped

\* C4: a call repeating a call that returned (True, False), with no change in
\* between and a probe that reports the remote file's size, returns (True, True)
\* and starts no transfer
C4_RepeatIsSkipped ==
    \A i \in 1..Len(calls) :
        LET c == calls[i].call
            url == FileUrl(c.remote_path)
        IN  (/\ calls[i].again
             /\ c.probed => (url \in DOMAIN remoteFiles
                                /\ ReportedSize(c.head) = {remoteFiles[url]}))
            => (/\ ~c.raised /\ c.ok /\ c.skipped
                /\ c.strategy = "none")

\* a repeated call was made, probed the true size and was skipped
C4_Witness ==
    \E i \in 1..Len(calls) :
        LET c == calls[i].call
        IN  /\ calls[i].again
            /\ c.probed
            /\ ReportedSize(c.head) = {remoteFiles[FileUrl(c.remote_path)]}
            /\ c.skipped

\* C18: a call that gets to the transfer without skipping runs one strategy,
\* wget if installed, else curl if installed, else the built-in copy, whatever
\* becomes of it; wget and curl return their exit status as success and raise
\* nothing; the built-in copy returns success or raises its error
C18_OneStrategyInFixedOrder ==
    \A i \in 1..Len(calls) :
        LET c == calls[i].call
        IN  /\ (c.reached /\ ~c.skipped) =>
                  c.strategy = IF "wget" \in c.which THEN "wget"
                               ELSE IF "curl" \in c.which THEN "curl"
                               ELSE "builtin"
            /\ c.skipped => c.strategy = "none"
            /\ c.strategy \in {"wget", "curl"} => (~c.raised /\ c.ok = c.completed)
            /\ c.strategy = "builtin" => (c.raised = ~c.completed /\ c.ok = c.completed)

\* wget failed with curl installed too, and the call returned the failure
C18_Witness ==
    \E i \in 1..Len(calls) :
        LET c == calls[i].call
        IN  /\ c.which = {"wget", "curl"}
            /\ c.strategy = "wget"
            /\ ~c.completed /\ ~c.ok /\ ~c.raised
            /\ FileUrl(c.remote_path) \in DOMAIN remoteFiles

----------------------------------------------------------------------------
(* The claims about the interactive session, checked under Spec *)

\* the last step was a loop iteration that read a line
ReadLine == last.kind = "iteration" /\ last.input # None

\* the line read, stripped of the blanks around it
Inp == StripCh(The(last.input), " ")

\* p without its last /-separated segment
WithoutLastSegment(p) ==
    IF \E i \in 1..Len(p) : p[i] = "/"
    THEN SubSeq(p, 1, (CHOOSE i \in 1..Len(p) :
                          p[i] = "/" /\ \A j \in (i + 1)..Len(p) : p[j] # "/") - 1)
    ELSE <<>>

\* the path of the entry name of the directory p
Child(p, name) == IF p = <<>> THEN name ELSE p \o <<"/">> \o name

\* a d followed by digits
IsDForm(u) == Len(u) >= 2 /\ u[1] = "d" /\ IsDigit(SubSeq(u, 2, Len(u)))

\* a d or D, blanks, digits: the forced-download form as the code reads it
IsDFormWide(u) ==
    Len(u) >= 2 /\ u[1] \in {"d", "D"} /\ IsDigit(StripCh(SubSeq(u, 2, Len(u)), " "))

\* the digits of a numeric, d-form or wide d-form input
IndexText(u) == IF IsDigit(u) THEN u ELSE StripCh(SubSeq(u, 2, Len(u)), " ")

\* the digits spell an index
HasIndex(u) == IsDecimal(IndexText(u))

\* the index a numeric, d-form or wide d-form input names
IndexOf(u) == ToInt(IndexText(u))

\* the input's index is within the listing the iteration printed
InListing(u) == HasIndex(u) /\ IndexOf(u) \in 1..Len(last.items)

\* the entry the input's index selects
Selected == last.items[IndexOf(Inp)]

\* the iteration started no download
NoDownload == calls = <<>> /\ last.folder = None

\* the iteration made the one call download_file(target of name, save_dir / name)
\* and the session stayed where it was
OneFileDownload(name) ==
    /\ Len(calls) = 1
    /\ calls[1].call.remote_path = Child(last.path, name)
    /\ calls[1].call.local_path = SaveDir \o <<name>>
    /\ last.folder = None
    /\ current_path = last.path

\* C5: after the input .. or cd .. the current path is unchanged at the root and
\* has lost its last segment elsewhere, and no download was started
C5_ParentNavigation ==
    (ReadLine /\ Inp \in {<<".", ".">>, <<"c", "d", " ", ".", ".">>}) =>
        /\ current_path = IF last.path = <<>> THEN <<>> ELSE WithoutLastSegment(last.path)
        /\ NoDownload

\* .. typed in a/b led to a
C5_Witness ==
    /\ ReadLine /\ Inp = <<".", ".">>
    /\ last.path = <<"a", "/", "b">>
    /\ current_path = <<"a">>

\* C6: after d<digits> selecting a directory the folder download ran for the
\* child path, and the current path is as before, whether the folder download
\* completed or raised
C6_ForcedFolderDownload ==
    (ReadLine /\ IsDForm(Inp) /\ InListing(Inp) /\ Selected.is_dir) =>
        /\ \E raised \in BOOLEAN :
              last.folder = Some([remote_path |-> Child(last.path, Selected.name),
                                  raised |-> raised])
        /\ \A i \in 1..Len(calls) :
              StartsWith(calls[i].call.remote_path,
                         Child(last.path, Selected.name) \o <<"/">>)
        /\ current_path = last.path

\* d2 typed in a: the folder download of a/b raised and the session is still in a
C6_Witness ==
    /\ ReadLine /\ Inp = <<"d", "2">>
    /\ last.path = <<"a">>
    /\ last.folder = Some([remote_path |-> <<"a", "/", "b">>, raised |-> TRUE])
    /\ current_path = <<"a">>

\* C7: after a number within the listing, a directory was entered without a
\* download, and a file was downloaded into the save directory with the current
\* path as before; d<digits> on a file does what the number alone does
C7_NumericSelection ==
    (ReadLine /\ (IsDigit(Inp) \/ IsDForm(Inp)) /\ InListing(Inp)) =>
        /\ (IsDigit(Inp) /\ Selected.is_dir) =>
                (current_path = Child(last.path, Selected.name) /\ NoDownload)
        /\ ~Selected.is_dir => OneFileDownload(Selected.name)

\* 1 typed in a downloaded the file a/x to /s/x
C7_Witness ==
    /\ ReadLine /\ Inp = <<"1">>
    /\ last.path = <<"a">>
    /\ OneFileDownload(<<"x">>)
    /\ calls[1].call.ok /\ ~calls[1].call.skipped
    /\ IsFile(localFs, SaveDir \o <<<<"x">>>>)

\* the listed entries named u
Named(u) == {i \in 1..Len(last.items) : last.items[i].name = u}

\* the input u was matched against the listed names: without a match it is
\* reported as not found, a directory is entered, a file is downloaded
MatchedByName(u) ==
    /\ Named(u) = {} =>
            (last.report = "Not found" /\ NoDownload /\ current_path = last.path)
    /\ \A i \in Named(u) :
            IF last.items[i].is_dir
            THEN current_path = Child(last.path, u) /\ NoDownload
            ELSE OneFileDownload(u)

\* the input is no empty line, quit token, parent navigation or number
OtherToken(u) ==
    /\ u # <<>>
    /\ Lower(u) \notin {<<"q">>, <<"q", "u", "i", "t">>, <<"e", "x", "i", "t">>}
    /\ u \notin {<<".", ".">>, <<"c", "d", " ", ".", ".">>}
    /\ ~IsDigit(u)

\* C8 as stated: every input that is not empty, a quit token, a parent
\* navigation, a number or d<digits> is matched against the listed names
C8_Original ==
    (ReadLine /\ OtherToken(Inp) /\ ~IsDForm(Inp)) => MatchedByName(Inp)

\* C8, amended: every input that is not empty, a quit token, a parent
\* navigation, a number or a d or D followed by digits (blanks allowed between)
\* is matched against the listed names by exact equality
C8_NameSelection ==
    (ReadLine /\ OtherToken(Inp) /\ ~IsDFormWide(Inp)) => MatchedByName(Inp)

\* F typed where f is listed: not found
C8_Witness ==
    /\ ReadLine /\ Inp = <<"F">>
    /\ \E i \in 1..Len(last.items) : last.items[i].name = <<"f">>
    /\ last.report = "Not found"
    /\ NoDownload

\* the input is a number or forced-download form, dform telling which inputs
\* are of that form, outside the listing, or a name no entry has
InputError(u, dform) ==
    \/ (IsDigit(u) \/ dform) /\ HasIndex(u) /\ ~InListing(u)
    \/ OtherToken(u) /\ ~dform /\ Named(u) = {}

\* C9 as stated: an index outside the listing, as a number or as d<digits>, or
\* a name that no entry has, is reported, starts no download and leaves the
\* current path and the session as they are
C9_Original ==
    (ReadLine /\ InputError(Inp, IsDForm(Inp))) =>
        /\ last.report \in {"Invalid number", "Not found"}
        /\ NoDownload
        /\ current_path = last.path
        /\ pc = "session"

\* C9, amended: a step that handles an index outside the listing (a number, or
\* a d or D followed by digits) or a name of no entry (an input of neither
\* form) reports it, starts no download, changes neither the current path nor
\* the local files, and the loop goes on
C9_InputErrorsChangeNothing ==
    [][(last'.kind = "iteration" /\ last'.input # None
        /\ LET u == StripCh(The(last'.input), " ")
               n == Len(last'.items)
           IN  \/ (IsDigit(u) \/ IsDFormWide(u)) /\ HasIndex(u) /\ IndexOf(u) \notin 1..n
               \/ /\ OtherToken(u) /\ ~IsDFormWide(u)
                  /\ \A i \in 1..n : last'.items[i].name # u)
       => (/\ last'.report \in {"Invalid number", "Not found"}
           /\ calls' = <<>> /\ last'.folder = None
           /\ current_path' = current_path
           /\ localFs' = localFs
           /\ pc' = "session")]_vars

\* d0 was reported as an invalid number
C9_Witness ==
    /\ ReadLine /\ Inp = <<"d", "0">>
    /\ last.report = "Invalid number"
    /\ NoDownload
    /\ pc = "session"

\* C10: after an iteration that started a download of a file or of a folder the
\* loop goes on with the current path as before, the outcome reported: a
\* success, a returned failure, or whatever was raised
C10_DownloadsNeverEndSession ==
    (last.kind = "iteration" /\ ~NoDownload) =>
        /\ pc = "session"
        /\ current_path = last.path
        /\ last.folder = None =>
              /\ Len(calls) = 1
              /\ last.report =
                    IF calls[1].call.raised THEN "Download failed: error"
                    ELSE IF ~calls[1].call.ok THEN "Download failed"
                    ELSE IF calls[1].call.skipped THEN "Skipped (exists)"
                    ELSE "Downloaded"
        /\ \A f \in last.folder :
              f.raised => (last.report = "Download failed: error" /\ calls = <<>>)

\* the built-in copy raised in a file download and the loop goes on
C10_Witness ==
    /\ last.kind = "iteration"
    /\ Len(calls) = 1
    /\ calls[1].call.raised
    /\ last.report = "Download failed: error"
    /\ pc = "session"

\* C11: the listing comes before the line is read; a failed listing is reported
\* and ends the session with no line read; and a session that has ended was
\* ended by a failed listing, by a quit token, or by the end of input or an
\* interrupt at the prompt
C11_EndsOnlyByListingQuitEof ==
    last.kind = "iteration" =>
        /\ last.input # None => last.listed
        /\ ~last.listed =>
              (pc = "done" /\ last.report = "Failed to list" /\ last.input = None)
        /\ pc # "session" =>
              \/ ~last.listed
              \/ last.input = None
              \/ Lower(Inp) \in {<<"q">>, <<"q", "u", "i", "t">>, <<"e", "x", "i", "t">>}

----------------------------------------------------------------------------
(* SpecLS: list_directory called on the responses a server may give for a  *)
(* directory                                                               *)

\* the most entries of a listed directory
MaxEntries == 2

\* the items a structured listing may hold: with or without name (and an empty
\* one), with or without href, with the path_type of a directory or of a file
ListedItems ==
    {Item(name, href, path_type) :
        name \in {None, Some(<<>>), Some(<<"a">>)},
        href \in {None, Some(<<"/", "d", "/", "b", "/">>)},
        path_type \in {TDir, TSymlinkDir, TFile}}

\* the contents of a directory: up to MaxEntries items
Contents == UNION {[1..n -> ListedItems] : n \in 0..MaxEntries}

\* what fetch_json may get for a directory of the given content: a failed
\* request, no record, paths that cannot be iterated, a record without paths,
\* and the record with the paths
JsonResponses(content) ==
    {[kind |-> "error"], [kind |-> "attribute_error"], [kind |-> "type_error"],
     [kind |-> "object", paths |-> None], [kind |-> "object", paths |-> Some(content)]}

\* what fetch_simple may get: a failed request, or the lines of the content
SimpleResponses(content) ==
    {[raised |-> TRUE, items |-> <<>>],
     [raised |-> FALSE, items |-> ParseSimple(SimpleLines(content))]}

\* a directory of some content, and what the server will answer for it
InitLS ==
    /\ localFs = EmptyFs
    /\ remoteFiles = NoFiles
    /\ remoteTree = NoTree
    /\ current_path = <<>>
    /\ pc = "lister"
    /\ \E content \in Contents :
       \E data \in JsonResponses(content), simple \in SimpleResponses(content) :
          last = [kind |-> "server", content |-> content, data |-> data, simple |-> simple]
    /\ calls = <<>>

\* the call of list_directory
ListDirectoryCall ==
    /\ pc = "lister"
    /\ last.kind = "server"
    /\ last' = [kind |-> "list", content |-> last.content, data |-> last.data,
                simple |-> last.simple,
                result |-> ListDirectoryOf(last.data, last.simple)]
    /\ UNCHANGED <<remoteTree, localFs, remoteFiles, current_path, pc, calls>>

NextLS == ListDirectoryCall

SpecLS == InitLS /\ [][NextLS]_vars

----------------------------------------------------------------------------
(* The claims about the lister, checked under SpecLS *)

\* C12: when the structured response is a record without paths, the ?simple
\* request is made and, if it succeeds, its entries are returned, and they are
\* the entries the structured format gives for the same content
C12_MissingPathsFallsBack ==
    (last.kind = "list" /\ last.data = [kind |-> "object", paths |-> None]) =>
        /\ last.result.fallback
        /\ ~last.simple.raised =>
              /\ last.result.items = last.simple.items
              /\ last.simple.items =
                    [i \in 1..Len(last.content) |-> EntryOf(last.content[i])]

\* C17: a failed structured request raises out of list_directory without a
\* ?simple request; a ?simple request is made only for a structured response
\* that came and has a mistyped field; and a failed ?simple request raises too
C17_NetworkFailurePropagates ==
    last.kind = "list" =>
        /\ last.data.kind = "error" => (last.result.raised /\ ~last.result.fallback)
        /\ last.result.fallback => last.data.kind = "type_error"
        /\ (last.result.fallback /\ last.simple.raised) => last.result.raised

\* the structured request failed, the ?simple one would have answered, and the
\* call raised without asking
C17_Witness ==
    /\ last.kind = "list"
    /\ last.data.kind = "error"
    /\ ~last.simple.raised /\ last.simple.items # <<>>
    /\ last.result.raised /\ ~last.result.fallback

----------------------------------------------------------------------------
(* SpecFD: collect_files_recursive and download_folder called on the trees *)
(* of a family of servers                                                  *)

\* the sequences without repetition of elements of S
Orders(S) ==
    {q \in UNION {[1..n -> S] : n \in 0..Cardinality(S)} :
        \A i, j \in 1..Len(q) : q[i] = q[j] => i = j}

\* the server's tree: / lists the directory A; A lists, in the order a, some of
\* the files x, z and the directory B; A/B lists, in the order b, some of the
\* file y and the symlinked directory C; A/B/C lists the file w
FolderTree(a, b) ==
    (<<>> :> <<Item(Some(<<"A">>), None, TDir)>>)
    @@ (<<<<"A">>>> :> a)
    @@ (<<<<"A">>, <<"B">>>> :> b)
    @@ (<<<<"A">>, <<"B">>, <<"C">>>> :> <<Item(Some(<<"w">>), None, TFile)>>)

FolderTrees ==
    {FolderTree(a, b) :
        a \in Orders({Item(Some(<<"x">>), None, TFile), Item(Some(<<"B">>), None, TDir),
                      Item(Some(<<"z">>), None, TSymlinkFile)}),
        b \in Orders({Item(Some(<<"y">>), None, TFile),
                      Item(Some(<<"C">>), None, TSymlinkDir)})}

\* the URL paths of the files the directories of tree list
FilesOf(tree) ==
    UNION {{d \o <<The(tree[d][i].name)>> :
                i \in {k \in 1..Len(tree[d]) : ~EndsWith(tree[d][k].path_type, TDir)}} :
           d \in DOMAIN tree}

\* the remote_path arguments: the root, A and A/B
FolderArgs == {<<>>, <<"A">>, <<"A", "/", "B">>}

\* what the environment answers to the calls of one folder download: wget
\* fetches the file, curl fails, or no tool is installed and the built-in copy
\* raises
FolderEnvs ==
    {[which |-> {"wget", "curl"}, head |-> [error |-> TRUE, cl |-> None],
      xfer |-> "ok", got |-> 0],
     [which |-> {"curl"}, head |-> [error |-> TRUE, cl |-> None],
      xfer |-> "refused", got |-> 0],
     [which |-> {}, head |-> [error |-> TRUE, cl |-> None],
      xfer |-> "refused", got |-> 0]}

InitFD ==
    /\ localFs = EmptyFs
    /\ remoteTree \in FolderTrees
    /\ remoteFiles = [f \in FilesOf(remoteTree) |-> 1]
    /\ current_path = <<>>
    /\ pc = "folder"
    /\ last = NoLast
    /\ calls = <<>>

\* one call collect_files_recursive(base_url, remote_path)
CollectCall ==
    /\ pc = "folder"
    /\ last = NoLast
    /\ \E remote_path \in FolderArgs, failing \in FailSets :
       \E got \in {CollectFilesRecursive(remoteTree, failing, remote_path, 0)} :
          last' = [kind |-> "collect", remote_path |-> remote_path, failing |-> failing,
                   raised |-> got.raised, files |-> got.files]
    /\ UNCHANGED <<localFs, remoteFiles, remoteTree, current_path, pc, calls>>

\* one call download_folder(base_url, remote_path, save_dir)
FolderCall ==
    /\ pc = "folder"
    /\ last = NoLast
    /\ \E remote_path \in FolderArgs, failing \in FailSets :
       \E got \in {CollectFilesRecursive(remoteTree, failing, remote_path, 0)} :
       \E envs \in [1..Len(got.files) -> FolderEnvs] :
       \E r \in {DownloadFolder(localFs, remoteFiles, remoteTree, failing,
                                remote_path, SaveDir, envs)} :
          /\ localFs' = r.fs
          /\ calls' = [i \in 1..Len(r.calls) |-> [call |-> r.calls[i], again |-> FALSE]]
          /\ last' = [kind |-> "folder", remote_path |-> remote_path, failing |-> failing,
                      raised |-> r.raised, files |-> got.files]
    /\ UNCHANGED <<remoteFiles, remoteTree, current_path, pc>>

NextFD == CollectCall \/ FolderCall

SpecFD == InitFD /\ [][NextFD]_vars

----------------------------------------------------------------------------
(* The claims about the folder download, checked under SpecFD *)

\* the segments of a remote path
Segs(p) == IF p = <<>> THEN <<>> ELSE Split(p)

\* the place of the entry named n in the server's listing of directory d
PlaceIn(d, n) == CHOOSE i \in 1..Len(remoteTree[d]) : remoteTree[d][i].name = Some(n)

\* the server lists n in directory d, as a directory (dir) or as a file
ListsAs(d, n, dir) ==
    /\ d \in DOMAIN remoteTree
    /\ \E i \in 1..Len(remoteTree[d]) :
          /\ remoteTree[d][i].name = Some(n)
          /\ EndsWith(remoteTree[d][i].path_type, TDir) = dir

\* p is reached from directory D by going down listed directories, its last
\* step being a listed directory (dir) or a listed file
ReachedFrom(D, p, dir) ==
    /\ Len(p) >= Len(D) /\ SubSeq(p, 1, Len(D)) = D
    /\ \A k \in (Len(D) + 1)..Len(p) :
          ListsAs(SubSeq(p, 1, k - 1), p[k], k < Len(p) \/ dir)

\* the files of the server's tree below directory D
FilesUnder(D) == {f \in FilesOf(remoteTree) : Len(f) > Len(D) /\ ReachedFrom(D, f, FALSE)}

\* the directories a traversal from D lists: D and the directories below it
DirsUnder(D) == {d \in DOMAIN remoteTree : ReachedFrom(D, d, TRUE)}

\* the different files f and g: where their paths part, f's entry is listed first
ListedBefore(f, g) ==
    LET k == CHOOSE n \in 1..Len(f) :
                /\ n <= Len(g) /\ f[n] # g[n]
                /\ \A m \in 1..(n - 1) : f[m] = g[m]
    IN  PlaceIn(SubSeq(f, 1, k - 1), f[k]) < PlaceIn(SubSeq(g, 1, k - 1), g[k])

\* C14: without a failing listing collect_files_recursive returns the files of
\* the subtree and nothing else, each once, in depth-first order: of two
\* collected files the one whose entry comes first where their paths part is
\* collected first
C14_CollectDepthFirstFilesOnly ==
    (last.kind = "collect" /\ last.failing = {}) =>
        LET D == Segs(last.remote_path)
            F == [i \in 1..Len(last.files) |-> Segs(last.files[i])]
        IN  /\ ~last.raised
            /\ {F[i] : i \in 1..Len(F)} = FilesUnder(D)
            /\ \A i, j \in 1..Len(F) : F[i] = F[j] => i = j
            /\ \A i, j \in 1..Len(F) : i < j => ListedBefore(F[i], F[j])

\* the tree A/{x, B/{y}} collected from A gives A/x, A/B/y
C14_Witness ==
    /\ last.kind = "collect" /\ last.failing = {}
    /\ last.remote_path = <<"A">>
    /\ remoteTree[<<<<"A">>>>] = <<Item(Some(<<"x">>), None, TFile),
                                   Item(Some(<<"B">>), None, TDir)>>
    /\ remoteTree[<<<<"A">>, <<"B">>>>] = <<Item(Some(<<"y">>), None, TFile)>>
    /\ last.files = <<<<"A", "/", "x">>, <<"A", "/", "B", "/", "y">>>>

\* C15: download_folder calls download_file once for every collected file, in
\* the collected order, whatever the calls before returned or raised, and a
\* call that fails or raises does not make download_folder raise
C15_EveryFileAttemptedOnce ==
    last.kind = "folder" =>
        /\ [i \in 1..Len(calls) |-> calls[i].call.remote_path] = last.files
        /\ calls # <<>> => ~last.raised

\* a call raised, a later one failed, a still later one succeeded
C15_Witness ==
    /\ last.kind = "folder" /\ ~last.raised
    /\ \E i, j, k \in 1..Len(calls) :
          /\ i < j /\ j < k
          /\ calls[i].call.raised
          /\ ~calls[j].call.raised /\ ~calls[j].call.ok
          /\ calls[k].call.ok

\* C16: the collected file remote_path/rel is downloaded to
\* local_base/<last segment of remote_path>/rel, and for the empty remote_path
\* to local_base/download/<the collected path>; different files go to
\* different local paths
C16_LocalPathsKeepStructure ==
    last.kind = "folder" =>
        LET D == Segs(last.remote_path)
            folder == IF D = <<>> THEN <<"d", "o", "w", "n", "l", "o", "a", "d">>
                      ELSE D[Len(D)]
        IN  /\ \A i \in 1..Len(calls) :
                  LET f == Segs(calls[i].call.remote_path)
                  IN  calls[i].call.local_path =
                          SaveDir \o <<folder>> \o SubSeq(f, Len(D) + 1, Len(f))
            /\ \A i, j \in 1..Len(calls) :
                  calls[i].call.local_path = calls[j].call.local_path => i = j

\* A downloaded: A/x went to /s/A/x and A/B/y to /s/A/B/y
C16_Witness ==
    /\ last.kind = "folder"
    /\ last.remote_path = <<"A">>
    /\ \E i, j \in 1..Len(calls) :
          /\ calls[i].call.remote_path = <<"A", "/", "x">>
          /\ calls[i].call.local_path = SaveDir \o <<<<"A">>, <<"x">>>>
          /\ calls[j].call.remote_path = <<"A", "/", "B", "/", "y">>
          /\ calls[j].call.local_path = SaveDir \o <<<<"A">>, <<"B">>, <<"y">>>>
          /\ IsFile(localFs, calls[j].call.local_path)

\* C19: a failing listing of any directory the traversal gets to makes
\* download_folder raise, and when it raises no download_file call was made
\* and no local file was written
C19_ListingFailureBeforeAnyTransfer ==
    last.kind = "folder" =>
        /\ last.failing \cap DirsUnder(Segs(last.remote_path)) # {} => last.raised
        /\ last.raised => (calls = <<>> /\ localFs = EmptyFs)

\* the listing of A/B/C failed after the file A/x had been collected
C19_Witness ==
    /\ last.kind = "folder"
    /\ last.remote_path = <<"A">>
    /\ last.failing = {<<<<"A">>, <<"B">>, <<"C">>>>}
    /\ last.raised
    /\ remoteTree[<<<<"A">>>>][1].name = Some(<<"x">>)
    /\ calls = <<>> /\ localFs = EmptyFs

----------------------------------------------------------------------------
(* The claims about the session's path, checked under SpecH *)

\* C13: in every state of the session current_path is empty, or a path with
\* no leading slash none of whose /-separated segments is . or ..
C13_PathSegmentsNeverDots ==
    \/ current_path = <<>>
    \/ /\ current_path[1] # "/"
       /\ \A i \in 1..Len(Split(current_path)) :
             Split(current_path)[i] \notin {<<".">>, <<".", ".">>}

\* the last step entered a directory of the listing, by its index or its name
EnteredDirectory ==
    /\ ReadLine
    /\ pc = "session"
    /\ \/ IsDigit(Inp) /\ InListing(Inp) /\ Selected.is_dir
       \/ /\ OtherToken(Inp) /\ ~IsDFormWide(Inp)
          /\ Named(Inp) # {}
          /\ \A i \in Named(Inp) : (\A j \in Named(Inp) : i <= j) => last.items[i].is_dir

\* the last step read .. or cd ..
ParentTyped == ReadLine /\ IsParentNav(Inp)

\* C20: a step that reads .. right after a step that entered a directory of
\* the listing brings current_path back to what it was before the directory
\* was entered
C20_NavigationRoundTrip ==
    [][(EnteredDirectory /\ ParentTyped') => current_path' = last.path]_vars

====
